---- MODULE Spec2Model ----
(***************************************************************************)
(* A model of the weaverfi balance engine: the endpoint-failover query     *)
(* executor (query), the multicall batcher and the wallet token sweep      *)
(* (multicallQuery, getWalletTokenBalance), the project dispatcher         *)
(* (getProjectBalance) and the project handlers (pooltogether, iron).      *)
(*                                                                         *)
(* Each component has its own specification over the shared variables:     *)
(*   SpecQuery      one invocation of query                                *)
(*   SpecMulticall  one invocation of getWalletTokenBalance                *)
(*   SpecProject    one invocation of getProjectBalance and of the         *)
(*                  handler it resolves                                    *)
(*   SpecValuation  one invocation of a token constructor (addToken,       *)
(*                  addLPToken, addCurveToken, ...)                        *)
(*   SpecNative     one invocation of getWalletNativeTokenBalance          *)
(***************************************************************************)
EXTENDS Integers, Sequences, FiniteSets, TLC

VARIABLES
    \* ---- query (src/src/functions.ts:27-49)
    chain,        \* the chain argument
    address,      \* the contract address argument, a sequence of hex digits
    nRpcs,        \* chains[chain].rpcs.length
    qpc,          \* "loop" while the while-loop runs, "done" after return
    result,       \* let result
    errors,       \* let errors
    rpcID,        \* let rpcID
    attempts,     \* every attempt made: [rpc, out, val], in order
    diagnostics,  \* number of console.error calls made by query
    returned,     \* the value query returned
    \* ---- multicallQuery / getWalletTokenBalance (src/src/functions.ts:54-59, 410-439)
    catalog,      \* data.tokens: sequence of [symbol, address]
    outcome,      \* what each sub-call of the aggregated call does on chain
    transport,    \* whether the aggregated call reaches the first endpoint
    mpc,          \* "start", "tasks", "returned", "thrown"
    contacted,    \* the endpoint indices multicallQuery has contacted, in order
    mcResults,    \* the results map multicall.call returned, keyed by reference
    tpc,          \* per catalog entry: position of its async task
    tokens,       \* let tokens, in push order
    mcDiag,       \* the catalog indices a balance diagnostic was emitted for
    \* ---- getProjectBalance and the handlers
    project,      \* the project argument
    dpc,          \* dispatcher position
    projectBalance, \* the array getProjectBalance returns
    warned,       \* number of console.warn calls of the dispatcher
    handler,      \* the handler module resolved and invoked, or "none"
    hpc,          \* handler get(): the section being run, "done" after return
    balance,      \* handler get(): let balance
    hLogged,      \* number of console.error calls of the handler's catch
    section,      \* the running section's local state
    found,        \* every position pushed to an accumulator so far
    lastRead,     \* the query a handler's serial code read last and its result;
                  \* in a concurrent section, the read that made a callback throw
    fn,           \* the token constructor being called, or "none"
    env,          \* its arguments and what its queries and lookups return
    vpc,          \* its position: "idle", "start", "returned", "raised"
    newToken,     \* the token it returns
    vWarned,      \* number of console.warn calls it made
    first,        \* how an earlier call with the same arguments ended
    npc,          \* getWalletNativeTokenBalance: "idle", "loop", "await", "done"
    nBalance,     \* its let balance: Absent while undefined
    nErrors,      \* its let errors
    nRpcID,       \* its let rpcID
    nFailed,      \* number of getBalance calls that threw
    nReturned     \* the array it returns

qvars == <<chain, address, nRpcs, qpc, result, errors, rpcID, attempts, diagnostics, returned>>
mvars == <<catalog, outcome, transport, mpc, contacted, mcResults, tpc, tokens, mcDiag>>
pvars == <<project, dpc, projectBalance, warned, handler, hpc, balance, hLogged, section, found,
          lastRead>>
vvars == <<fn, env, vpc, newToken, vWarned, first>>
nvars == <<npc, nBalance, nErrors, nRpcID, nFailed, nReturned>>
vars == <<qvars, mvars, pvars, vvars, nvars>>

(***************************************************************************)
(* Bounds of the model.                                                    *)
(***************************************************************************)
MaxRpcs == 3
MaxFalsy == 2
MaxTokens == 3
MaxFarms == 2
MaxMarkets == 2

(***************************************************************************)
(* JavaScript values as far as the code distinguishes them.                *)
(***************************************************************************)
Undefined == [type |-> "undefined", n |-> 0]
Num(k) == [type |-> "number", n |-> k]
Bool(k) == [type |-> "boolean", n |-> k]
Str(len) == [type |-> "string", n |-> len]
BigNum(k) == [type |-> "bignumber", n |-> k]

\* ToBoolean: undefined, 0, false and "" are falsy; every object is truthy.
Truthy(v) ==
    CASE v.type = "undefined" -> FALSE
      [] v.type = "number" -> v.n # 0
      [] v.type = "boolean" -> v.n = 1
      [] v.type = "string" -> v.n # 0
      [] OTHER -> TRUE

\* What a contract read can decode to: uint8 (number), bool, string, uint256.
Decoded == {Num(0), Num(18), Bool(0), Str(0), BigNum(0), BigNum(7)}

Chains == {"eth", "poly"}

\* String.prototype.toLowerCase on one hex digit, and on an address.
LowerChar(c) ==
    CASE c = "A" -> "a" [] c = "B" -> "b" [] c = "C" -> "c"
      [] c = "D" -> "d" [] c = "E" -> "e" [] c = "F" -> "f"
      [] OTHER -> c
ToLowerCase(a) == [i \in DOMAIN a |-> LowerChar(a[i])]

\* The addresses a caller passes, abbreviated to their leading hex digits:
\* the QuickSwap registry as listed and in mixed case, the dual rewards
\* registry in upper case, and the iron registry.
Addresses ==
    { <<"8", "a", "a", "a">>, <<"8", "A", "a", "A">>,
      <<"9", "D", "D", "1">>, <<"1", "f", "D", "1">> }

maxQueryRetries == 3

ignoredErrors ==
    << [chain |-> "poly", address |-> <<"8", "a", "a", "a">>],
       [chain |-> "poly", address |-> <<"9", "d", "d", "1">>] >>

\* ignoredErrors.find(i => i.chain === chain && i.address === address.toLowerCase())
IsIgnored(c, a) ==
    \E k \in DOMAIN ignoredErrors :
        ignoredErrors[k].chain = c /\ ignoredErrors[k].address = ToLowerCase(a)

\* while(!result && errors < maxQueryRetries)
LoopCondition(r, e) == ~Truthy(r) /\ e < maxQueryRetries

FalsyReads == Cardinality({i \in DOMAIN attempts : attempts[i].out = "ok" /\ ~Truthy(attempts[i].val)})

\* try: the call on endpoint rpcID decodes to v.
QueryAttemptOk ==
    /\ qpc = "loop"
    /\ LoopCondition(result, errors)
    /\ \E v \in Decoded :
        /\ ~Truthy(v) => FalsyReads < MaxFalsy
        /\ result' = v
        /\ attempts' = Append(attempts, [rpc |-> rpcID, out |-> "ok", val |-> v])
    /\ UNCHANGED <<chain, address, nRpcs, qpc, errors, rpcID, diagnostics, returned>>

\* The catch block without its else branch: rpcID is never reset to 0.
CatchNoReset(id, e) ==
    IF id + 1 >= nRpcs
    THEN [rpcID |-> id + 1, errors |-> e + 1,
          log |-> (e + 1 >= maxQueryRetries) /\ ~IsIgnored(chain, address)]
    ELSE [rpcID |-> id + 1, errors |-> e, log |-> FALSE]

\* The catch block comparing ++rpcID with rpcs.length by > instead of >=.
CatchPastLastEndpoint(id, e) ==
    IF id + 1 > nRpcs
    THEN IF e + 1 >= maxQueryRetries
         THEN [rpcID |-> id + 1, errors |-> e + 1, log |-> ~IsIgnored(chain, address)]
         ELSE [rpcID |-> 0, errors |-> e + 1, log |-> FALSE]
    ELSE [rpcID |-> id + 1, errors |-> e, log |-> FALSE]

\* catch { if(++rpcID >= rpcs.length) { if(++errors >= max) {log} else {rpcID = 0} } }
Catch(id, e) ==
    IF id + 1 >= nRpcs
    THEN IF e + 1 >= maxQueryRetries
         THEN [rpcID |-> id + 1, errors |-> e + 1, log |-> ~IsIgnored(chain, address)]
         ELSE [rpcID |-> 0, errors |-> e + 1, log |-> FALSE]
    ELSE [rpcID |-> id + 1, errors |-> e, log |-> FALSE]

\* try/catch: the call on endpoint rpcID throws (transport or decoding).
QueryAttemptFail ==
    /\ qpc = "loop"
    /\ LoopCondition(result, errors)
    /\ attempts' = Append(attempts, [rpc |-> rpcID, out |-> "throw", val |-> Undefined])
    /\ LET c == Catch(rpcID, errors) IN
        /\ rpcID' = c.rpcID
        /\ errors' = c.errors
        /\ diagnostics' = diagnostics + (IF c.log THEN 1 ELSE 0)
    /\ UNCHANGED <<chain, address, nRpcs, qpc, result, returned>>

\* return result
QueryReturn ==
    /\ qpc = "loop"
    /\ ~LoopCondition(result, errors)
    /\ qpc' = "done"
    /\ returned' = result
    /\ UNCHANGED <<chain, address, nRpcs, result, errors, rpcID, attempts, diagnostics>>

QueryInit ==
    /\ chain \in Chains
    /\ address \in Addresses
    /\ nRpcs \in 1..MaxRpcs
    /\ qpc = "loop"
    /\ result = Undefined
    /\ errors = 0
    /\ rpcID = 0
    /\ attempts = <<>>
    /\ diagnostics = 0
    /\ returned = Undefined

QueryIdle ==
    /\ address = <<"1", "f", "D", "1">>
    /\ qpc = "idle"
    /\ result = Undefined
    /\ errors = 0
    /\ rpcID = 0
    /\ attempts = <<>>
    /\ diagnostics = 0
    /\ returned = Undefined

MulticallIdle ==
    /\ catalog = <<>>
    /\ outcome = <<>>
    /\ transport = "ok"
    /\ mpc = "idle"
    /\ contacted = <<>>
    /\ mcResults = <<>>
    /\ tpc = <<>>
    /\ tokens = <<>>
    /\ mcDiag = {}

ProjectIdle ==
    /\ project = "none"
    /\ dpc = "idle"
    /\ projectBalance = <<>>
    /\ warned = 0
    /\ handler = "none"
    /\ hpc = "idle"
    /\ balance = <<>>
    /\ hLogged = 0
    /\ section = [balances |-> <<>>, tasks |-> <<>>]
    /\ found = {}
    /\ lastRead = [query |-> "none", value |-> 0]

ValuationIdle ==
    /\ fn = "none"
    /\ env = <<>>
    /\ vpc = "idle"
    /\ newToken = <<>>
    /\ vWarned = 0
    /\ first = [pc |-> "none", token |-> <<>>]

NativeIdle ==
    /\ npc = "idle"
    /\ nBalance = -1
    /\ nErrors = 0
    /\ nRpcID = 0
    /\ nFailed = 0
    /\ nReturned = <<>>

InitQuery == QueryInit /\ MulticallIdle /\ ProjectIdle /\ ValuationIdle /\ NativeIdle

NextQuery ==
    \/ QueryAttemptOk /\ UNCHANGED <<mvars, pvars, vvars, nvars>>
    \/ QueryAttemptFail /\ UNCHANGED <<mvars, pvars, vvars, nvars>>
    \/ QueryReturn /\ UNCHANGED <<mvars, pvars, vvars, nvars>>

SpecQuery == InitQuery /\ [][NextQuery]_vars

(***************************************************************************)
(* multicallQuery and getWalletTokenBalance.                               *)
(***************************************************************************)
Symbols == {"USDC", "WETH"}

\* Known-token catalogs: entry i has address i, so addresses are distinct
\* while two entries may carry the same symbol.
Catalogs ==
    UNION { [1..n -> [symbol : Symbols, address : 1..n]] : n \in 1..MaxTokens }

\* What one balanceOf sub-call does: it reverts, or it returns a raw balance.
SubCallOutcomes ==
    { [success |-> FALSE, raw |-> BigNum(0)],
      [success |-> TRUE, raw |-> BigNum(0)],
      [success |-> TRUE, raw |-> BigNum(7)] }

\* parseInt(ethers.BigNumber.from(bn).toString())
parseBN(bn) == bn.n

\* data.tokens.forEach(token => queries.push({reference: token.symbol, ...}))
BuildQueries(data) ==
    [i \in DOMAIN data |->
        [reference |-> data[i].symbol, contractAddress |-> data[i].address,
         methodName |-> "balanceOf"]]

References(queries) == {queries[i].reference : i \in DOMAIN queries}

\* An aggregate call that reverts as a whole when one sub-call reverts.
StrictAggregate(out) == \E i \in DOMAIN out : ~out[i].success

\* new Multicall({..., tryAggregate: true, ...}): a reverting sub-call is
\* reported in its own result and never fails the aggregated call.
AggregateFails(out) == FALSE

\* The endpoint after the primary one.
SecondaryEndpoint == 1 % nRpcs

\* new ethers.providers.JsonRpcProvider(chains[chain].rpcs[0])
MulticallEndpoint == 0

\* multicall.call(queries): the results object holds one entry per
\* reference; when several call specs share a reference one of them
\* occupies the entry (pick).
MulticallResults(queries, out, pick) ==
    [r \in References(queries) |->
        [originalIndex |-> pick[r],
         callsReturnContext |->
            << [reference |-> "balance", success |-> out[pick[r]].success,
                returnValues |-> <<out[pick[r]].raw>>] >>]]

Picks(queries) ==
    { p \in [References(queries) -> DOMAIN queries] :
        \A r \in References(queries) : queries[p[r]].reference = r }

\* The per-token callbacks of data.tokens.map run up to their first await as
\* soon as the results are in: a failed sub-call logs, a zero balance ends
\* the callback, a positive one awaits addTrackedToken.
TaskStart(results, data, i) ==
    LET tokenResults == results[data[i].symbol].callsReturnContext[1] IN
    IF tokenResults.success
    THEN IF parseBN(tokenResults.returnValues[1]) > 0 THEN "adding" ELSE "finished"
    ELSE "logged"

\* multicallQuery returns; getWalletTokenBalance starts one callback per token.
MulticallOk ==
    /\ mpc = "start"
    /\ transport = "ok"
    /\ ~AggregateFails(outcome)
    /\ contacted' = Append(contacted, MulticallEndpoint)
    /\ \E pick \in Picks(BuildQueries(catalog)) :
        LET results == MulticallResults(BuildQueries(catalog), outcome, pick) IN
        /\ mcResults' = results
        /\ tpc' = [i \in DOMAIN catalog |-> TaskStart(results, catalog, i)]
        /\ mcDiag' = {i \in DOMAIN catalog : TaskStart(results, catalog, i) = "logged"}
    /\ mpc' = "tasks"
    /\ UNCHANGED <<catalog, outcome, transport, tokens>>

\* A multicallQuery that fails over to the next endpoint when the call throws.
MulticallThrowFailover ==
    /\ mpc = "start"
    /\ transport = "down" \/ AggregateFails(outcome)
    /\ contacted' = contacted \o <<MulticallEndpoint, SecondaryEndpoint>>
    /\ mpc' = "thrown"
    /\ UNCHANGED <<catalog, outcome, transport, mcResults, tpc, tokens, mcDiag>>

\* await multicall.call(queries) throws: nothing catches it, neither in
\* multicallQuery nor in getWalletTokenBalance.
MulticallThrow ==
    /\ mpc = "start"
    /\ transport = "down" \/ AggregateFails(outcome)
    /\ contacted' = Append(contacted, MulticallEndpoint)
    /\ mpc' = "thrown"
    /\ UNCHANGED <<catalog, outcome, transport, mcResults, tpc, tokens, mcDiag>>

\* addTrackedToken(chain, 'wallet', 'none', token, rawBalance, wallet)
addTrackedToken(token, rawBalance) ==
    [symbol |-> token.symbol, address |-> token.address, rawBalance |-> rawBalance]

\* let newToken = await addTrackedToken(...); tokens.push(newToken)
TokenPush(i) ==
    /\ mpc = "tasks"
    /\ tpc[i] = "adding"
    /\ LET tokenResults == mcResults[catalog[i].symbol].callsReturnContext[1] IN
        tokens' = Append(tokens, addTrackedToken(catalog[i], parseBN(tokenResults.returnValues[1])))
    /\ tpc' = [tpc EXCEPT ![i] = "finished"]
    /\ UNCHANGED <<catalog, outcome, transport, mpc, contacted, mcResults, mcDiag>>

\* await Promise.all(promises); return tokens
WalletTokenReturn ==
    /\ mpc = "tasks"
    /\ \A i \in DOMAIN tpc : tpc[i] \in {"finished", "logged"}
    /\ mpc' = "returned"
    /\ UNCHANGED <<catalog, outcome, transport, contacted, mcResults, tpc, tokens, mcDiag>>

\* getWalletBalance: walletBalance.push(...(await getWalletTokenBalance(chain, wallet)))
\* is not inside a try block, so the rejection is getWalletBalance's own.
WalletBalanceRaise ==
    /\ mpc = "thrown"
    /\ mpc' = "raised"
    /\ UNCHANGED <<catalog, outcome, transport, contacted, mcResults, tpc, tokens, mcDiag>>

\* getWalletBalance: return walletBalance
WalletBalanceReturn ==
    /\ mpc = "returned"
    /\ mpc' = "walletReturned"
    /\ UNCHANGED <<catalog, outcome, transport, contacted, mcResults, tpc, tokens, mcDiag>>

MulticallInit ==
    /\ catalog \in Catalogs
    /\ \A i \in DOMAIN catalog : catalog[i].address = i
    /\ outcome \in [DOMAIN catalog -> SubCallOutcomes]
    /\ transport \in {"ok", "down"}
    /\ mpc = "start"
    /\ contacted = <<>>
    /\ mcResults = <<>>
    /\ tpc = <<>>
    /\ tokens = <<>>
    /\ mcDiag = {}

InitMulticall ==
    /\ chain \in Chains
    /\ nRpcs \in 1..MaxRpcs
    /\ QueryIdle
    /\ MulticallInit
    /\ ProjectIdle
    /\ ValuationIdle
    /\ NativeIdle

NextMulticall ==
    \/ MulticallOk /\ UNCHANGED <<qvars, pvars, vvars, nvars>>
    \/ MulticallThrow /\ UNCHANGED <<qvars, pvars, vvars, nvars>>
    \/ (\E i \in DOMAIN catalog : TokenPush(i)) /\ UNCHANGED <<qvars, pvars, vvars, nvars>>
    \/ WalletTokenReturn /\ UNCHANGED <<qvars, pvars, vvars, nvars>>
    \/ WalletBalanceRaise /\ UNCHANGED <<qvars, pvars, vvars, nvars>>
    \/ WalletBalanceReturn /\ UNCHANGED <<qvars, pvars, vvars, nvars>>

SpecMulticall == InitMulticall /\ [][NextMulticall]_vars

(***************************************************************************)
(* getProjectBalance and the handlers it resolves: pooltogether (eth and   *)
(* poly) and iron (poly).                                                  *)
(***************************************************************************)
ProjectNames == {"pooltogether", "iron", "aave"}

\* The project catalog of each chain.
projects(c) == IF c = "poly" THEN {"pooltogether", "iron"} ELSE {"pooltogether"}

\* A validation against the projects of every chain instead of this chain's.
KnownOnSomeChain(c, p) == \E other \in Chains : p \in projects(other)

\* projects[chain].includes(project)
KnownProject(c, p) == p \in projects(c)

\* What a query made by a handler gives back: an absent result, a zero or
\* a positive number.
Absent == -1
Reads == {Absent, 0, 5}

Position(status, origin, id) == [status |-> status, origin |-> origin, id |-> id]

NoSection == [balances |-> <<>>, tasks |-> <<>>]
NewTask(pc) == [pc |-> pc, amount |-> 0, rewards |-> 0, native |-> FALSE]

Range(seq) == {seq[i] : i \in DOMAIN seq}

dfix == <<project, dpc, projectBalance, warned, handler>>

\* The test made on every balance read with the test relaxed to >= 0.
HasBalanceOrZero(b) == b >= 0

\* if(balance > 0), if(rewards > 0): false for 0 and for the NaN that
\* parseInt gives for an absent result.
HasBalance(b) == b > 0

NoRead == [query |-> "none", value |-> 0]
Read(query, value) == [query |-> query, value |-> value]

\* let dapp = await import(`./projects/${chain}/${project}`); dapp.get(wallet)
DispatchResolve ==
    /\ dpc = "start"
    /\ KnownProject(chain, project)
    /\ handler' = project
    /\ dpc' = "handler"
    /\ hpc' = IF project = "iron" THEN "farms.count" ELSE "pool"
    /\ UNCHANGED <<project, projectBalance, warned, balance, hLogged, section, found, lastRead>>

\* else { console.warn(`Invalid Project Queried: ...`) }; return projectBalance
DispatchUnknown ==
    /\ dpc = "start"
    /\ ~KnownProject(chain, project)
    /\ warned' = warned + 1
    /\ dpc' = "returned"
    /\ UNCHANGED <<project, projectBalance, handler, hpc, balance, hLogged, section, found, lastRead>>

\* projectBalance.push(...(balance)); return projectBalance
DispatchReturn ==
    /\ dpc = "handler"
    /\ hpc = "done"
    /\ projectBalance' = projectBalance \o balance
    /\ dpc' = "returned"
    /\ UNCHANGED <<project, warned, handler, hpc, balance, hLogged, section, found, lastRead>>

\* An exception raised inside a section while reading `query`. It leaves
\* the section before the section's own array is spread into balance, so
\* that array is dropped with it.
Throw(query) ==
    /\ hpc' = "thrown"
    /\ section' = NoSection
    /\ lastRead' = Read(query, Absent)
    /\ UNCHANGED <<balance, hLogged, found>>

\* A get() whose catch block rethrows instead of logging.
GetRethrow ==
    /\ hpc = "thrown"
    /\ hpc' = "raised"
    /\ UNCHANGED <<dfix, balance, hLogged, section, found, lastRead>>

\* get(): catch { console.error(...) } return balance
GetCatch ==
    /\ hpc = "thrown"
    /\ hLogged' = hLogged + 1
    /\ hpc' = "done"
    /\ UNCHANGED <<dfix, balance, section, found, lastRead>>

\* balance.push(...(await section(wallet))) with a section that resolved.
SectionReturn(next) ==
    /\ balance' = balance \o section.balances
    /\ section' = NoSection
    /\ hpc' = next
    /\ UNCHANGED <<hLogged, found, lastRead>>

\* A push that writes back a copy of the array taken before the callback
\* was suspended: the entries pushed since are dropped.
PushToStaleCopy(i, token, task) ==
    /\ section' = [section EXCEPT !.balances = <<token>>, !.tasks[i] = task]
    /\ found' = found \cup {token}
    /\ UNCHANGED <<balance, hLogged, hpc, lastRead>>

\* balances.push(newToken) inside a section; task is the callback's state
\* after the push.
Push(i, token, task) ==
    /\ section' = [section EXCEPT !.balances = Append(@, token), !.tasks[i] = task]
    /\ found' = found \cup {token}
    /\ UNCHANGED <<balance, hLogged, hpc, lastRead>>

Step(i, task) ==
    /\ section' = [section EXCEPT !.tasks[i] = task]
    /\ UNCHANGED <<balance, hLogged, hpc, found, lastRead>>

AllFinished == \A i \in DOMAIN section.tasks : section.tasks[i].pc = "finished"

\* ---- pooltogether: get() and getPoolBalanceV4
\* balance = parseInt(await query(chain, poolV4, minABI, 'balanceOf', [wallet]))
\* if(balance > 0) { newToken = await addToken(...usdc...); return [newToken] }
PoolBalanceV4 ==
    /\ hpc = "pool"
    /\ \E r \in Reads :
        /\ IF HasBalance(r)
           THEN /\ balance' = Append(balance, Position("staked", "poolV4", 0))
                /\ found' = found \cup {Position("staked", "poolV4", 0)}
           ELSE UNCHANGED <<balance, found>>
        /\ lastRead' = Read("poolV4.balanceOf", r)
    /\ hpc' = "done"
    /\ UNCHANGED <<dfix, hLogged, section>>

\* ---- iron: getFarmBalances
\* poolCount = parseInt(await query(... 'poolLength' ...)); [...Array(poolCount).keys()]
\* An absent result makes poolCount NaN and Array(NaN) throws.
FarmsPoolLength ==
    /\ hpc = "farms.count"
    /\ \E r \in {Absent} \cup 0..MaxFarms :
        IF r = Absent
        THEN Throw("poolLength")
        ELSE /\ section' = [balances |-> <<>>, tasks |-> [i \in 1..r |-> NewTask("userInfo")]]
             /\ hpc' = "farms"
             /\ UNCHANGED <<balance, hLogged, found, lastRead>>
    /\ UNCHANGED dfix

\* One farm's callback up to its first push (farmID = i - 1):
\*   balance = parseInt((await query(... 'userInfo', [farmID, wallet])).amount)
\*   if(balance > 0) { lpToken = await query(... 'lpToken', [farmID]);
\*     newToken = await addIronToken(...) or addLPToken(...); balances.push(newToken)
\* An absent userInfo throws on .amount. addIronToken and addLPToken throw
\* when lpToken is absent (query on poly lowercases the address it gives up
\* on) and when a read made for the token's parts is absent (swap,
\* getReserves, token0, token1).
FarmStaked(i) ==
    /\ hpc = "farms"
    /\ section.tasks[i].pc = "userInfo"
    /\ \E r \in Reads, lpToken \in {"absent", "lp"}, partsRead \in BOOLEAN :
        IF r = Absent
        THEN Throw("userInfo")
        ELSE IF ~HasBalance(r)
        THEN Step(i, [section.tasks[i] EXCEPT !.amount = r, !.pc = "finished"])
        ELSE IF lpToken = "absent"
        THEN Throw("lpToken")
        ELSE IF ~partsRead
        THEN Throw("lpToken parts")
        ELSE /\ section' = [section EXCEPT
                    !.balances = Append(@, Position("staked", "farm", i - 1)),
                    !.tasks[i].amount = r,
                    !.tasks[i].pc = "pendingReward"]
             /\ found' = found \cup {Position("staked", "farm", i - 1)}
             /\ UNCHANGED <<balance, hLogged, hpc, lastRead>>
    /\ UNCHANGED dfix

\* The rest of the callback:
\*   rewards = parseInt(await query(... 'pendingReward', [farmID, wallet]))
\*   if(rewards > 0) { newToken = await addToken(... ice ...); balances.push(newToken) }
FarmPendingReward(i) ==
    /\ hpc = "farms"
    /\ section.tasks[i].pc = "pendingReward"
    /\ \E r \in Reads :
        IF HasBalance(r)
        THEN Push(i, Position("unclaimed", "farm", i - 1),
                  [section.tasks[i] EXCEPT !.rewards = r, !.pc = "finished"])
        ELSE Step(i, [section.tasks[i] EXCEPT !.pc = "finished"])
    /\ UNCHANGED dfix

\* await Promise.all(promises); return balances
FarmsReturn ==
    /\ hpc = "farms"
    /\ AllFinished
    /\ SectionReturn("markets.list")
    /\ UNCHANGED dfix

\* ---- iron: getMarketBalances
\* markets = await query(... 'getAllMarkets', []); markets.map(...)
\* An absent result throws on .map.
MarketsList ==
    /\ hpc = "markets.list"
    /\ \E r \in {Absent} \cup 0..MaxMarkets :
        IF r = Absent
        THEN Throw("getAllMarkets")
        ELSE /\ section' = [balances |-> <<>>, tasks |-> [i \in 1..r |-> NewTask("balanceOf")]]
             /\ hpc' = "markets"
             /\ UNCHANGED <<balance, hLogged, found, lastRead>>
    /\ UNCHANGED dfix

\* tokenAddress = defaultAddress for the native market 0xca0f..., and
\* await query(chain, market, iron.marketABI, 'underlying', []) otherwise.
UnderlyingReads(native) == IF native THEN {"default"} ELSE {"absent", "underlying"}

\* One market's callback up to its first push:
\*   balance = parseInt(await query(chain, market, minABI, 'balanceOf', [wallet]))
\*   account = await query(... 'getAccountSnapshot', [wallet]); debt = parseInt(account[2])
\*   if(balance > 0) { tokenAddress = ...; newToken = await addToken(... 'lent' ...) }
\*   if(debt > 0) { tokenAddress = ...; newToken = await addDebtToken(...) }
\* An absent snapshot throws on account[2]; addToken and addDebtToken throw
\* on an absent tokenAddress (address.toLowerCase()).
MarketLent(i) ==
    /\ hpc = "markets"
    /\ section.tasks[i].pc = "balanceOf"
    /\ \E bal \in Reads, debt \in Reads, native \in BOOLEAN :
       \E tokenAddress \in UnderlyingReads(native) :
        IF debt = Absent
        THEN Throw("getAccountSnapshot")
        ELSE IF bal <= 0 /\ debt = 0
        THEN Step(i, [section.tasks[i] EXCEPT !.pc = "finished"])
        ELSE IF tokenAddress = "absent"
        THEN Throw("underlying")
        ELSE /\ section' = [section EXCEPT
                    !.balances = Append(@, Position(IF bal > 0 THEN "lent" ELSE "borrowed",
                                                    "market", i)),
                    !.tasks[i].native = (bal > 0 /\ debt > 0 /\ native),
                    !.tasks[i].pc = IF bal > 0 /\ debt > 0 THEN "debt" ELSE "finished"]
             /\ found' = found \cup {Position(IF bal > 0 THEN "lent" ELSE "borrowed",
                                              "market", i)}
             /\ UNCHANGED <<balance, hLogged, hpc, lastRead>>
    /\ UNCHANGED dfix

\* The borrowing half after a lending position was pushed.
MarketDebt(i) ==
    /\ hpc = "markets"
    /\ section.tasks[i].pc = "debt"
    /\ \E tokenAddress \in UnderlyingReads(section.tasks[i].native) :
        IF tokenAddress = "absent"
        THEN Throw("underlying")
        ELSE /\ section' = [section EXCEPT
                    !.balances = Append(@, Position("borrowed", "market", i)),
                    !.tasks[i] = NewTask("finished")]
             /\ found' = found \cup {Position("borrowed", "market", i)}
             /\ UNCHANGED <<balance, hLogged, hpc, lastRead>>
    /\ UNCHANGED dfix

MarketsReturn ==
    /\ hpc = "markets"
    /\ AllFinished
    /\ SectionReturn("rewards")
    /\ UNCHANGED dfix

\* ---- iron: getMarketRewards
\* rewards = parseInt(await query(chain, lending, ..., 'rewardAccrued', [wallet]))
\* if(rewards > 0) { newToken = await addToken(... ice ...); return [newToken] }
MarketRewards ==
    /\ hpc = "rewards"
    /\ \E r \in Reads :
        /\ IF HasBalance(r)
           THEN /\ balance' = Append(balance, Position("unclaimed", "lending", 0))
                /\ found' = found \cup {Position("unclaimed", "lending", 0)}
           ELSE UNCHANGED <<balance, found>>
        /\ lastRead' = Read("rewardAccrued", r)
    /\ hpc' = "staked"
    /\ UNCHANGED <<dfix, hLogged, section>>

\* ---- iron: getStakedICE
\* balance = parseInt(await query(chain, blueice, minABI, 'balanceOf', [wallet]))
\* locked = await query(... 'locked', [wallet]); addXToken(..., parseInt(locked.amount))
\* An absent locked throws on .amount.
StakedICE ==
    /\ hpc = "staked"
    /\ \E r \in Reads, locked \in {"absent", "locked"} :
        IF HasBalance(r)
        THEN IF locked = "absent"
             THEN Throw("locked")
             ELSE /\ balance' = Append(balance, Position("staked", "blueice", 0))
                  /\ found' = found \cup {Position("staked", "blueice", 0)}
                  /\ lastRead' = Read("blueice.balanceOf", r)
                  /\ hpc' = "done"
                  /\ UNCHANGED <<hLogged, section>>
        ELSE /\ hpc' = "done"
             /\ lastRead' = Read("blueice.balanceOf", r)
             /\ UNCHANGED <<balance, found, hLogged, section>>
    /\ UNCHANGED dfix

ProjectInit ==
    /\ project \in ProjectNames
    /\ dpc = "start"
    /\ projectBalance = <<>>
    /\ warned = 0
    /\ handler = "none"
    /\ hpc = "idle"
    /\ balance = <<>>
    /\ hLogged = 0
    /\ section = NoSection
    /\ found = {}
    /\ lastRead = NoRead

InitProject ==
    /\ chain \in Chains
    /\ nRpcs = 1
    /\ QueryIdle
    /\ MulticallIdle
    /\ ProjectInit
    /\ ValuationIdle
    /\ NativeIdle

Tasks == DOMAIN section.tasks

NextProject ==
    \/ DispatchResolve /\ UNCHANGED <<qvars, mvars, vvars, nvars>>
    \/ DispatchUnknown /\ UNCHANGED <<qvars, mvars, vvars, nvars>>
    \/ DispatchReturn /\ UNCHANGED <<qvars, mvars, vvars, nvars>>
    \/ GetCatch /\ UNCHANGED <<qvars, mvars, vvars, nvars>>
    \/ PoolBalanceV4 /\ UNCHANGED <<qvars, mvars, vvars, nvars>>
    \/ FarmsPoolLength /\ UNCHANGED <<qvars, mvars, vvars, nvars>>
    \/ (\E i \in Tasks : FarmStaked(i)) /\ UNCHANGED <<qvars, mvars, vvars, nvars>>
    \/ (\E i \in Tasks : FarmPendingReward(i)) /\ UNCHANGED <<qvars, mvars, vvars, nvars>>
    \/ FarmsReturn /\ UNCHANGED <<qvars, mvars, vvars, nvars>>
    \/ MarketsList /\ UNCHANGED <<qvars, mvars, vvars, nvars>>
    \/ (\E i \in Tasks : MarketLent(i)) /\ UNCHANGED <<qvars, mvars, vvars, nvars>>
    \/ (\E i \in Tasks : MarketDebt(i)) /\ UNCHANGED <<qvars, mvars, vvars, nvars>>
    \/ MarketsReturn /\ UNCHANGED <<qvars, mvars, vvars, nvars>>
    \/ MarketRewards /\ UNCHANGED <<qvars, mvars, vvars, nvars>>
    \/ StakedICE /\ UNCHANGED <<qvars, mvars, vvars, nvars>>

SpecProject == InitProject /\ [][NextProject]_vars

(***************************************************************************)
(* JavaScript numbers as far as the token constructors need them: NaN,     *)
(* Infinity, and the non-negative value num / (den * 10^exp).              *)
(***************************************************************************)
RECURSIVE Ten(_)
Ten(k) == IF k = 0 THEN 1 ELSE 10 * Ten(k - 1)

NaN == [kind |-> "NaN", num |-> 0, den |-> 1, exp |-> 0]
Infinity == [kind |-> "Infinity", num |-> 0, den |-> 1, exp |-> 0]
Number(n) == [kind |-> "number", num |-> n, den |-> 1, exp |-> 0]
Finite(num, den, exp) ==
    IF num = 0 THEN Number(0)
    ELSE [kind |-> "number", num |-> num, den |-> den, exp |-> exp]

IsFinite(x) == x.kind = "number"

\* a / b
Divide(a, b) ==
    IF a.kind = "NaN" \/ b.kind = "NaN" THEN NaN
    ELSE IF b.kind = "Infinity"
    THEN (IF a.kind = "Infinity" THEN NaN ELSE Number(0))
    ELSE IF a.kind = "Infinity" THEN Infinity
    ELSE IF b.num = 0
    THEN (IF a.num = 0 THEN NaN ELSE Infinity)
    ELSE Finite(a.num * b.den, a.den * b.num, a.exp - b.exp)

\* a * b
Multiply(a, b) ==
    IF a.kind = "NaN" \/ b.kind = "NaN" THEN NaN
    ELSE IF a.kind = "Infinity"
    THEN (IF IsFinite(b) /\ b.num = 0 THEN NaN ELSE Infinity)
    ELSE IF b.kind = "Infinity"
    THEN (IF a.num = 0 THEN NaN ELSE Infinity)
    ELSE Finite(a.num * b.num, a.den * b.den, a.exp + b.exp)

\* a + b
Plus(a, b) ==
    IF a.kind = "NaN" \/ b.kind = "NaN" THEN NaN
    ELSE IF a.kind = "Infinity" \/ b.kind = "Infinity" THEN Infinity
    ELSE LET m == IF a.exp >= b.exp THEN a.exp ELSE b.exp IN
         Finite(a.num * b.den * Ten(m - a.exp) + b.num * a.den * Ten(m - b.exp),
                a.den * b.den, m)

\* 10 ** d for a number d that is NaN or a non-negative integer
Pow10(d) ==
    IF d.kind = "NaN" THEN NaN
    ELSE [kind |-> "number", num |-> 1, den |-> 1, exp |-> 0 - d.num]

\* parseInt of a query result, and the coercion a division makes of one:
\* an absent result gives NaN.
parseInt(r) == IF r = Absent THEN NaN ELSE Number(r)

\* a == b for two numbers (NaN is compared as a value here)
SameNumber(a, b) ==
    /\ a.kind = b.kind
    /\ IsFinite(a) =>
        LET m == IF a.exp <= b.exp THEN a.exp ELSE b.exp IN
        IF a.exp - b.exp > 9 \/ b.exp - a.exp > 9
        THEN a.num = 0 /\ b.num = 0
        ELSE a.num * b.den * Ten(b.exp - m) = b.num * a.den * Ten(a.exp - m)

(***************************************************************************)
(* The token constructors. A call's inputs are its arguments and what the  *)
(* queries and table lookups it makes return; getTokenPrice is external    *)
(* and returns a price drawn from Prices.                                  *)
(***************************************************************************)
RawBalances == {0, 1, 1000000}
TrackedDecimals == {6, 18}
DecimalsReads == {Absent, 0, 6}
Prices == {0, 2}
AddressKinds == {"native", "tracked", "untracked"}

\* The status argument of a call: two of the TokenStatus values.
Statuses == {"none", "staked"}

\* A constructor that returns the raw balance as the balance.
Unnormalized(rawBalance, decimals) == Number(rawBalance)

\* let balance = rawBalance / (10 ** decimals)
Normalized(rawBalance, decimals) == Divide(Number(rawBalance), Pow10(decimals))

\* { type, chain, location, status, owner, symbol, address, balance, price, logo }
Token(type, status, symbol, bal, price) ==
    [type |-> type, status |-> status, symbol |-> symbol, balance |-> bal, price |-> price]

\* return <token>
Return(token) ==
    /\ vpc' = "returned"
    /\ newToken' = token
    /\ UNCHANGED <<fn, env, vWarned, first>>

\* a TypeError thrown by the constructor's own code: nothing catches it
Raise ==
    /\ vpc' = "raised"
    /\ UNCHANGED <<fn, env, newToken, vWarned, first>>

SimpleEnvs ==
    [kind : AddressKinds, tableDecimals : TrackedDecimals, decimalsRead : DecimalsReads,
     rawBalance : RawBalances, price : Prices, status : Statuses]

\* addToken, addDebtToken: let decimals = 18; the native sentinel keeps it,
\* a tracked token takes token.decimals, any other token takes
\* parseInt(await query(chain, address, minABI, 'decimals', [])).
decimalsOf(e) ==
    IF e.kind = "native" THEN Number(18)
    ELSE IF e.kind = "tracked" THEN Number(e.tableDecimals)
    ELSE parseInt(e.decimalsRead)

AddNativeToken ==
    /\ vpc = "start"
    /\ fn = "addNativeToken"
    /\ Return(Token("nativeToken", "none", "symbol", Normalized(env.rawBalance, Number(18)),
                    Number(env.price)))

AddToken ==
    /\ vpc = "start"
    /\ fn = "addToken"
    /\ Return(Token("token", env.status, "symbol", Normalized(env.rawBalance, decimalsOf(env)),
                    Number(env.price)))

AddDebtToken ==
    /\ vpc = "start"
    /\ fn = "addDebtToken"
    /\ Return(Token("debt", "borrowed", "symbol", Normalized(env.rawBalance, decimalsOf(env)),
                    Number(env.price)))

\* addTrackedToken: let decimals = token.decimals
AddTrackedToken ==
    /\ vpc = "start"
    /\ fn = "addTrackedToken"
    /\ Return(Token("token", env.status, "symbol", Normalized(env.rawBalance, Number(env.tableDecimals)),
                    Number(env.price)))

\* ---- pair tokens
LPRawBalances == {0, 3}
LPDecimalsReads == {Absent, 18}
SupplyReads == {Absent, 0, 2}

\* A paired or underlying token: in the tracked-token table with its
\* decimals, or untracked with what its decimals query returns.
PairedTokens ==
    { [tracked |-> TRUE, decimals |-> 6],
      [tracked |-> FALSE, decimals |-> 18],
      [tracked |-> FALSE, decimals |-> Absent] }

\* decimals0 = trackedToken0.decimals, or parseInt(await query(... 'decimals' ...))
pairedDecimals(t) == IF t.tracked THEN Number(t.decimals) ELSE parseInt(t.decimals)

\* getReserves: absent (the empty tuple) or the two reserves
ReservesReads == {<<>>} \cup {<<a, b>> : a \in {0, 4}, b \in {0, 6}}

LPEnvs ==
    [rawBalance : LPRawBalances, decimalsRead : LPDecimalsReads, reserves : ReservesReads,
     totalSupplyRead : SupplyReads, addressesRead : BOOLEAN,
     token0 : PairedTokens, token1 : PairedTokens, price : Prices, status : Statuses]

\* The holder's share taken upside down.
InverseShare(bal, supply) == Divide(supply, bal)

\* (balance / lpTokenSupply)
Share(bal, supply) == Divide(bal, supply)

\* lpTokenSupply = await query(... 'totalSupply' ...) / (10 ** decimals)
lpTokenSupply(e) == Divide(parseInt(e.totalSupplyRead), Pow10(parseInt(e.decimalsRead)))

\* supply0 = lpTokenReserves[0] / (10 ** decimals0)
supply0(e) == Divide(Number(e.reserves[1]), Pow10(pairedDecimals(e.token0)))
supply1(e) == Divide(Number(e.reserves[2]), Pow10(pairedDecimals(e.token1)))

PricedToken(bal, price) == [balance |-> bal, price |-> price]

\* { type, chain, location, status, owner, symbol, address, balance, token0, token1 }
LPToken(status, bal, t0, t1) ==
    [type |-> "lpToken", status |-> status, symbol |-> "symbol", balance |-> bal,
     token0 |-> t0, token1 |-> t1]

\* addLPToken. getTrackedTokenInfo(chain, address0) throws on an absent
\* address0, lpTokenReserves[0] throws on absent reserves.
AddLPToken ==
    /\ vpc = "start"
    /\ fn = "addLPToken"
    /\ IF ~env.addressesRead \/ env.reserves = <<>>
       THEN Raise
       ELSE LET bal == Normalized(env.rawBalance, parseInt(env.decimalsRead)) IN
            Return(LPToken(env.status, bal,
                PricedToken(Multiply(supply0(env), Share(bal, lpTokenSupply(env))),
                            Number(env.price)),
                PricedToken(Multiply(supply1(env), Share(bal, lpTokenSupply(env))),
                            Number(env.price))))

\* ---- derivative tokens
StakedReads == {Absent, 0, 4}

\* The xToken's own address: in the tracked-token table with its decimals, or not.
OuterTokens ==
    {[tracked |-> FALSE, decimals |-> Absent]} \cup
    {[tracked |-> TRUE, decimals |-> d] : d \in TrackedDecimals}

\* The underlying address: tracked or not, the decimals of its contract,
\* and what a 'decimals' query of it returns.
UnderlyingTokens ==
    UNION {{[tracked |-> t, decimals |-> d, decimalsRead |-> r] :
                t \in BOOLEAN, r \in {d, Absent}} : d \in TrackedDecimals}

XEnvs ==
    [rawBalance : LPRawBalances, stakedRead : StakedReads, supplyRead : SupplyReads,
     decimalsRead : LPDecimalsReads, outer : OuterTokens, underlying : UnderlyingTokens,
     price : Prices, status : Statuses]

\* let token = getTrackedTokenInfo(chain, address): the lookup is given the
\* xToken's own address. A hit supplies token.symbol and token.decimals, a
\* miss queries underlyingAddress.
underlyingSymbol(e) ==
    IF e.outer.tracked THEN "symbol of address" ELSE "symbol of underlyingAddress"

underlyingDecimals(e) ==
    IF e.outer.tracked THEN Number(e.outer.decimals) ELSE parseInt(e.underlying.decimalsRead)

\* addXToken
addXToken(e, underlyingRawBalance) ==
    [type |-> "xToken", status |-> e.status, symbol |-> "symbol",
     balance |-> Normalized(e.rawBalance, parseInt(e.decimalsRead)),
     underlyingToken |->
        [symbol |-> underlyingSymbol(e),
         balance |-> Divide(underlyingRawBalance, Pow10(underlyingDecimals(e))),
         price |-> Number(e.price)]]

\* rawBalance * (joeStaked / xjoeSupply)
stakedShare(e) ==
    Multiply(Number(e.rawBalance), Divide(parseInt(e.stakedRead), parseInt(e.supplyRead)))

AddTraderJoeToken ==
    /\ vpc = "start"
    /\ fn = "addTraderJoeToken"
    /\ Return(addXToken(env, stakedShare(env)))

AddSpookyToken ==
    /\ vpc = "start"
    /\ fn = "addSpookyToken"
    /\ Return(addXToken(env, stakedShare(env)))

\* ---- the unidentified-pattern placeholder
\* { type: 'token', chain, location, status: 'none', owner, symbol: '???', ...,
\*   balance: 0, price: 0, ... }
Placeholder == Token("token", "none", "???", Number(0), Number(0))

\* console.warn(`Unidentified Curve Token: ${address}`); return { ... }
WarnAndReturn(token) ==
    /\ vpc' = "returned"
    /\ newToken' = token
    /\ vWarned' = vWarned + 1
    /\ UNCHANGED <<fn, env, first>>

\* ---- Balancer-like pools
MaxPoolTokens == 3
TokenDecimalsReads == {Absent, 6}

\* getPoolTokens: absent, or the balances of the pool's tokens
PoolInfos ==
    {[present |-> FALSE, balances |-> <<>>]} \cup
    {[present |-> TRUE, balances |-> b] :
        b \in UNION {[1..n -> {0, 4}] : n \in 0..MaxPoolTokens}}

BalancerEnvs ==
    [rawBalance : LPRawBalances, decimalsRead : LPDecimalsReads, poolInfo : PoolInfos,
     totalSupplyRead : SupplyReads, tokenDecimalsRead : TokenDecimalsReads, price : Prices,
     status : Statuses]

\* priceSum += (parseInt(balances[i]) / (10 ** tokenDecimals)) * tokenPrice, i < n,
\* tokenPrices[i] being the price fetched for the i-th token
RECURSIVE priceSum(_, _, _, _)
priceSum(n, reserves, tokenDecimals, tokenPrices) ==
    IF n = 0 THEN Number(0)
    ELSE Plus(priceSum(n - 1, reserves, tokenDecimals, tokenPrices),
              Multiply(Divide(IF n <= Len(reserves) THEN parseInt(reserves[n]) ELSE NaN,
                              Pow10(tokenDecimals)),
                       tokenPrices[n]))

\* addBalancerLikeToken. poolInfo.tokens throws on an absent poolInfo.
AddBalancerLikeToken ==
    /\ vpc = "start"
    /\ fn = "addBalancerLikeToken"
    /\ LET decimals == parseInt(env.decimalsRead)
           bal == Normalized(env.rawBalance, decimals)
           supply == parseInt(env.totalSupplyRead)
           reserves == env.poolInfo.balances
           tokenDecimals == parseInt(env.tokenDecimalsRead)
       IN  IF ~env.poolInfo.present
           THEN Raise
           ELSE IF Len(reserves) > 2
           THEN Return(Token("token", env.status, "symbol", bal,
                    Divide(priceSum(Len(reserves), reserves, tokenDecimals,
                                    [i \in 1..Len(reserves) |-> Number(env.price)]),
                           Divide(supply, Pow10(decimals)))))
           ELSE IF Len(reserves) = 2
           THEN Return(LPToken(env.status, bal,
                    PricedToken(Divide(Multiply(parseInt(reserves[1]), Share(bal, supply)),
                                       Pow10(tokenDecimals)), Number(env.price)),
                    PricedToken(Divide(Multiply(parseInt(reserves[2]), Share(bal, supply)),
                                       Pow10(tokenDecimals)), Number(env.price))))
           ELSE Return(Placeholder)

\* ---- Curve pools
MaxCoins == 3
CurveChains == {"eth", "poly", "ftm", "avax", "bsc"}
VirtualPriceReads == {Absent, 1}

\* The decomposition rules of poly, ftm and avax modelled here: the pool
\* priced by its minter's get_virtual_price and the two-coin pool.
CurveRules == {"none", "virtualPrice", "pair"}

\* A pool's coin: an ordinary token, or one of the synthetic assets
\* (sLINK, sBTC, sEUR) that getPrice redirects.
CoinKinds == {"coin", "synth"}

\* get_underlying_coins: absent (the empty tuple) or the registry's
\* fixed-size array, the pool's coins followed by zero-address padding
CoinsReads ==
    {<<>>} \cup
    {[i \in 1..MaxCoins |-> IF i <= Len(c) THEN c[i] ELSE "zero"] :
        c \in UNION {[1..n -> CoinKinds] : n \in 0..MaxCoins}}

\* get_underlying_balances: absent or the fixed-size array, the balance of
\* each coin in the coins' order, 0 in the padding
BalancesReads == {<<>>} \cup [1..MaxCoins -> {0, 4}]

\* The two registry arrays describe one pool.
OnePool(coins, balances) ==
    coins # <<>> /\ balances # <<>> =>
        \A i \in 1..MaxCoins : coins[i] = "zero" => balances[i] = 0

CurveEnvs ==
    {e \in [chain : {"eth"}, rule : {"none"}, minterRead : {TRUE},
            rawBalance : LPRawBalances, decimalsRead : LPDecimalsReads,
            totalSupplyRead : SupplyReads, coins : CoinsReads, balances : BalancesReads,
            virtualPriceRead : VirtualPriceReads, tokenDecimalsRead : TokenDecimalsReads,
            price : Prices, synthPrice : {1}, redirectPrice : {3}, status : Statuses] :
        OnePool(e.coins, e.balances)}
    \cup
    [chain : {"poly", "ftm", "avax"}, rule : CurveRules, minterRead : BOOLEAN,
     rawBalance : LPRawBalances, decimalsRead : LPDecimalsReads,
     totalSupplyRead : SupplyReads, coins : {<<>>},
     balances : {<<Absent, Absent>>, <<0, 0>>, <<4, 4>>},
     virtualPriceRead : VirtualPriceReads, tokenDecimalsRead : TokenDecimalsReads,
     price : Prices, status : Statuses]
    \cup
    [chain : {"bsc"}, rule : {"none"}, minterRead : {TRUE},
     rawBalance : LPRawBalances, decimalsRead : {Absent},
     totalSupplyRead : {Absent}, coins : {<<>>}, balances : {<<>>},
     virtualPriceRead : {Absent}, tokenDecimalsRead : {Absent}, price : Prices,
     status : Statuses]

\* query(chain, address, ...) given an absent address: every attempt fails,
\* and on poly the catch block's address.toLowerCase() throws.
QueryOfAbsentThrows(c) == c = "poly"

\* addCurveToken on eth: the registry's coins and balances without their padding
curveTokens(e) == SelectSeq(e.coins, LAMBDA c : c # "zero")
curveReserves(e) == SelectSeq(e.balances, LAMBDA b : b # 0)

\* getTokenPrice(chain, address, decimals): the price source's price of the
\* address itself
getTokenPrice(e, a) == IF a = "synth" THEN Number(e.synthPrice) ELSE Number(e.price)

\* getPrice: sLINK, sBTC and sEUR take the price of LINK, WBTC and EURS
getPrice(e, a) == IF a = "synth" THEN Number(e.redirectPrice) ELSE getTokenPrice(e, a)

CurveEth ==
    LET decimals == parseInt(env.decimalsRead)
        bal == Normalized(env.rawBalance, decimals)
        supply == lpTokenSupply(env)
        multiplier == Divide(parseInt(env.virtualPriceRead), Pow10(decimals))
        reserves == curveReserves(env)
        n == Len(curveTokens(env))
    IN  IF env.coins = <<>> \/ env.balances = <<>>
        THEN Raise
        ELSE IF n > 2
        THEN Return(Token("token", env.status, "symbol", bal,
                Multiply(Divide(priceSum(n, reserves, parseInt(env.tokenDecimalsRead),
                                         [i \in 1..n |-> getPrice(env, curveTokens(env)[i])]),
                                supply),
                         multiplier)))
        ELSE IF n = 2
        THEN Return(LPToken(env.status, bal,
                PricedToken(Multiply(Divide(IF Len(reserves) >= 1 THEN parseInt(reserves[1])
                                            ELSE NaN, Pow10(Number(18))),
                                     Share(bal, supply)), getTokenPrice(env, curveTokens(env)[1])),
                PricedToken(Multiply(Divide(IF Len(reserves) >= 2 THEN parseInt(reserves[2])
                                            ELSE NaN, Pow10(Number(18))),
                                     Share(bal, supply)), getTokenPrice(env, curveTokens(env)[2]))))
        ELSE WarnAndReturn(Placeholder)

\* addCurveToken on poly, ftm and avax: the rule the address matches
CurveRule ==
    LET decimals == parseInt(env.decimalsRead)
        bal == Normalized(env.rawBalance, decimals)
        supply == lpTokenSupply(env)
    IN  IF env.rule = "none"
        THEN WarnAndReturn(Placeholder)
        ELSE IF ~env.minterRead /\ QueryOfAbsentThrows(env.chain)
        THEN Raise
        ELSE IF env.rule = "virtualPrice"
        THEN Return(Token("token", env.status, "symbol", bal,
                Divide(IF env.minterRead THEN parseInt(env.virtualPriceRead) ELSE NaN,
                       Pow10(decimals))))
        ELSE Return(LPToken(env.status, bal,
                PricedToken(Divide(Multiply(Divide(IF env.minterRead
                                                   THEN parseInt(env.balances[1]) ELSE NaN,
                                                   Pow10(decimals)),
                                            Share(bal, supply)),
                                   Pow10(parseInt(env.tokenDecimalsRead))), Number(env.price)),
                PricedToken(Divide(Multiply(Divide(IF env.minterRead
                                                   THEN parseInt(env.balances[2]) ELSE NaN,
                                                   Pow10(decimals)),
                                            Share(bal, supply)),
                                   Pow10(parseInt(env.tokenDecimalsRead))), Number(env.price))))

AddCurveToken ==
    /\ vpc = "start"
    /\ fn = "addCurveToken"
    /\ IF env.chain = "eth" THEN CurveEth
       ELSE IF env.chain \in {"poly", "ftm", "avax"} THEN CurveRule
       ELSE WarnAndReturn(Placeholder)

\* ---- the same call made again
\* The results of query the constructors read, by the field that holds them.
QueryReads ==
    {"decimalsRead", "totalSupplyRead", "reserves", "addressesRead", "token0", "token1",
     "stakedRead", "supplyRead", "underlying", "poolInfo", "tokenDecimalsRead",
     "coins", "balances", "virtualPriceRead", "minterRead"}

\* What a read holds when every attempt of its query fails: query returns
\* undefined. A tracked token's decimals are not read.
FailedRead(f, v) ==
    IF f \in {"reserves", "coins"} THEN <<>>
    ELSE IF f = "balances" THEN [i \in 1..(IF Len(v) = 2 THEN 2 ELSE 0) |-> Absent]
    ELSE IF f \in {"addressesRead", "minterRead"} THEN FALSE
    ELSE IF f \in {"token0", "token1"}
    THEN (IF v.tracked THEN v ELSE [v EXCEPT !.decimals = Absent])
    ELSE IF f = "underlying" THEN [v EXCEPT !.decimalsRead = Absent]
    ELSE IF f = "poolInfo" THEN [present |-> FALSE, balances |-> <<>>]
    ELSE Absent

\* The call is made again with the same arguments, chain state and price.
StartAgain ==
    /\ vpc \in {"returned", "raised"}
    /\ first.pc = "none"
    /\ first' = [pc |-> vpc, token |-> newToken]
    /\ vpc' = "start"
    /\ newToken' = <<>>
    /\ UNCHANGED <<fn, vWarned>>

\* Every query of the second call returns what it returned to the first.
CallAgain ==
    /\ StartAgain
    /\ env' = env

\* The endpoints fail during one query of the second call.
CallAgainReadFails ==
    /\ StartAgain
    /\ \E f \in QueryReads \cap DOMAIN env :
            env' = [env EXCEPT ![f] = FailedRead(f, env[f])]

ValuationInit ==
    /\ vpc = "start"
    /\ newToken = <<>>
    /\ vWarned = 0
    /\ first = [pc |-> "none", token |-> <<>>]
    /\ \/ fn \in {"addNativeToken", "addToken", "addDebtToken", "addTrackedToken"}
          /\ env \in SimpleEnvs
       \/ fn = "addLPToken" /\ env \in LPEnvs
       \/ fn \in {"addTraderJoeToken", "addSpookyToken"} /\ env \in XEnvs
       \/ fn = "addBalancerLikeToken" /\ env \in BalancerEnvs
       \/ fn = "addCurveToken" /\ env \in CurveEnvs

InitValuation ==
    /\ chain = "eth"
    /\ nRpcs = 1
    /\ QueryIdle
    /\ MulticallIdle
    /\ ProjectIdle
    /\ ValuationInit
    /\ NativeIdle

NextValuation ==
    \/ AddNativeToken /\ UNCHANGED <<qvars, mvars, pvars, nvars>>
    \/ AddToken /\ UNCHANGED <<qvars, mvars, pvars, nvars>>
    \/ AddDebtToken /\ UNCHANGED <<qvars, mvars, pvars, nvars>>
    \/ AddTrackedToken /\ UNCHANGED <<qvars, mvars, pvars, nvars>>
    \/ AddLPToken /\ UNCHANGED <<qvars, mvars, pvars, nvars>>
    \/ AddTraderJoeToken /\ UNCHANGED <<qvars, mvars, pvars, nvars>>
    \/ AddSpookyToken /\ UNCHANGED <<qvars, mvars, pvars, nvars>>
    \/ AddBalancerLikeToken /\ UNCHANGED <<qvars, mvars, pvars, nvars>>
    \/ AddCurveToken /\ UNCHANGED <<qvars, mvars, pvars, nvars>>
    \/ CallAgain /\ UNCHANGED <<qvars, mvars, pvars, nvars>>
    \/ CallAgainReadFails /\ UNCHANGED <<qvars, mvars, pvars, nvars>>

SpecValuation == InitValuation /\ [][NextValuation]_vars

(***************************************************************************)
(* getWalletNativeTokenBalance.                                            *)
(***************************************************************************)
\* What a getBalance call that does not throw can decode to.
NativeBalances == {0, 5}

\* while(!balance && errors < maxQueryRetries)
NativeLoopCondition(b, e) == ~HasBalance(b) /\ e < maxQueryRetries

\* try { ... await ethers_provider.getBalance(wallet) ...: the call is sent
\* to endpoint rpcID and the function is suspended.
NativeRequest ==
    /\ npc = "loop"
    /\ NativeLoopCondition(nBalance, nErrors)
    /\ npc' = "await"
    /\ UNCHANGED <<nBalance, nErrors, nRpcID, nFailed, nReturned>>

\* balance = parseInt((await ethers_provider.getBalance(wallet)).toString())
NativeResolve ==
    /\ npc = "await"
    /\ \E b \in NativeBalances : nBalance' = b
    /\ npc' = "loop"
    /\ UNCHANGED <<nErrors, nRpcID, nFailed, nReturned>>

\* catch { if(++rpcID >= chains[chain].rpcs.length) { errors++; rpcID = 0 } }
NativeReject ==
    /\ npc = "await"
    /\ IF nRpcID + 1 >= nRpcs
       THEN nErrors' = nErrors + 1 /\ nRpcID' = 0
       ELSE nErrors' = nErrors /\ nRpcID' = nRpcID + 1
    /\ nFailed' = nFailed + 1
    /\ npc' = "loop"
    /\ UNCHANGED <<nBalance, nReturned>>

\* if(balance && balance > 0) { newToken = await addNativeToken(...); return [newToken] }
\* return []
NativeReturn ==
    /\ npc = "loop"
    /\ ~NativeLoopCondition(nBalance, nErrors)
    /\ nReturned' = IF HasBalance(nBalance)
                    THEN <<[type |-> "nativeToken", rawBalance |-> nBalance]>>
                    ELSE <<>>
    /\ npc' = "done"
    /\ UNCHANGED <<nBalance, nErrors, nRpcID, nFailed>>

NativeInit ==
    /\ npc = "loop"
    /\ nBalance = Absent
    /\ nErrors = 0
    /\ nRpcID = 0
    /\ nFailed = 0
    /\ nReturned = <<>>

InitNative ==
    /\ chain \in Chains
    /\ nRpcs \in 1..MaxRpcs
    /\ QueryIdle
    /\ MulticallIdle
    /\ ProjectIdle
    /\ ValuationIdle
    /\ NativeInit

NextNative ==
    \/ NativeRequest /\ UNCHANGED <<qvars, mvars, pvars, vvars>>
    \/ NativeResolve /\ UNCHANGED <<qvars, mvars, pvars, vvars>>
    \/ NativeReject /\ UNCHANGED <<qvars, mvars, pvars, vvars>>
    \/ NativeReturn /\ UNCHANGED <<qvars, mvars, pvars, vvars>>

SpecNative == InitNative /\ [][NextNative]_vars

\* The event loop resumes the function whenever it can run, and every
\* getBalance call settles.
FairSpecNative == SpecNative /\ WF_vars(NextNative)

(***************************************************************************)
(* Properties of query, checked under SpecQuery.                           *)
(***************************************************************************)
AllFailed == \A i \in DOMAIN attempts : attempts[i].out = "throw"

\* The index of the first attempt that decoded, or 0 when none did.
FirstOk ==
    IF AllFailed THEN 0
    ELSE CHOOSE i \in DOMAIN attempts :
            /\ attempts[i].out = "ok"
            /\ \A j \in 1..(i - 1) : attempts[j].out = "throw"

\* C1: when every endpoint attempt fails, query makes exactly N*3 attempts,
\* three full passes over the endpoints 0..N-1 in order, and then returns
\* undefined.
C1_AllFailGivesUpAfterThreePasses ==
    AllFailed =>
        /\ Len(attempts) <= nRpcs * 3
        /\ \A i \in DOMAIN attempts : attempts[i].rpc = (i - 1) % nRpcs
        /\ qpc = "done" => Len(attempts) = nRpcs * 3 /\ returned = Undefined

C1_Witness ==
    /\ qpc = "done"
    /\ AllFailed
    /\ nRpcs >= 2
    /\ Len(attempts) = nRpcs * 3
    /\ returned = Undefined

\* C2: a finished query has emitted exactly one diagnostic when it was
\* abandoned after every attempt failed and (chain, lowercased address) is
\* not suppression-listed, none when the pair is listed, and none whenever
\* it returns a result.
C2_DiagnosticOnlyOnUnlistedAbandonment ==
    qpc = "done" =>
        /\ (AllFailed /\ ~IsIgnored(chain, address)) => diagnostics = 1
        /\ IsIgnored(chain, address) => diagnostics = 0
        /\ returned # Undefined => diagnostics = 0

\* C3: when the first k < N endpoints fail and endpoint k decodes, query
\* makes exactly k+1 attempts, the pass counter stays 0 and the value
\* returned is endpoint k's.
C3_FirstPassSuccessReturnsAtOnce ==
    (FirstOk # 0 /\ FirstOk <= nRpcs) =>
        /\ Len(attempts) = FirstOk
        /\ errors = 0
        /\ qpc = "done" => returned = attempts[FirstOk].val

\* C4: whatever each attempt does, query never makes more than N*3 attempts.
C4_AtMostThreePassesOfAttempts == Len(attempts) <= nRpcs * 3

\* C5: an attempt that decodes, to any value, is the last attempt of the
\* query, and its value is the one returned.
C5_DecodedAttemptEndsQuery ==
    \A i \in DOMAIN attempts :
        attempts[i].out = "ok" =>
            /\ i = Len(attempts)
            /\ qpc = "done" => returned = attempts[i].val

\* The failed attempts made on the last endpoint, N-1.
LastEndpointFailures ==
    {i \in DOMAIN attempts : attempts[i].out = "throw" /\ attempts[i].rpc = nRpcs - 1}

\* C22: the first attempt is on endpoint 0; a failed attempt on i < N-1 is
\* followed by an attempt on i+1; a failed attempt on N-1 increments the
\* pass counter and is followed by an attempt on 0, unless the counter has
\* reached 3, and then no attempt follows. Every attempt uses an index in
\* 0..N-1 and the pass counter is at most 3.
C22_EndpointsInOrder ==
    /\ attempts # <<>> => attempts[1].rpc = 0
    /\ \A i \in DOMAIN attempts : attempts[i].rpc \in 0..(nRpcs - 1)
    /\ \A i \in 1..(Len(attempts) - 1) :
        attempts[i].out = "throw" =>
            attempts[i + 1].rpc = (IF attempts[i].rpc < nRpcs - 1
                                   THEN attempts[i].rpc + 1 ELSE 0)
    /\ errors = Cardinality(LastEndpointFailures)
    /\ errors <= 3
    /\ errors = 3 => Len(attempts) \in LastEndpointFailures
    /\ (qpc = "done" /\ attempts[Len(attempts)].out = "throw") => errors = 3

C22_Witness ==
    /\ qpc = "done"
    /\ nRpcs = 2
    /\ errors = 1
    /\ Len(attempts) = 4
    /\ \A i \in 1..3 : attempts[i].out = "throw"
    /\ attempts[3].rpc = 0
    /\ attempts[4] = [rpc |-> 1, out |-> "ok", val |-> BigNum(7)]

(***************************************************************************)
(* Properties of multicallQuery and getWalletTokenBalance, checked under   *)
(* SpecMulticall.                                                          *)
(***************************************************************************)
CallMade == mpc # "start"
ExactlyOneSubCallFails == Cardinality({i \in DOMAIN outcome : ~outcome[i].success}) = 1
DistinctReferences ==
    \A i, j \in DOMAIN catalog : i # j => catalog[i].symbol # catalog[j].symbol

\* The batch came back with M results, one failed and M-1 succeeded, each
\* call spec's own outcome stored under its reference key.
OneToOneResults ==
    /\ mpc # "thrown"
    /\ Cardinality(DOMAIN mcResults) = Len(catalog)
    /\ \A i \in DOMAIN catalog :
        LET r == mcResults[BuildQueries(catalog)[i].reference].callsReturnContext[1] IN
        /\ r.success = outcome[i].success
        /\ r.returnValues = <<outcome[i].raw>>
    /\ Cardinality({r \in DOMAIN mcResults : ~mcResults[r].callsReturnContext[1].success}) = 1
    /\ Cardinality({r \in DOMAIN mcResults : mcResults[r].callsReturnContext[1].success})
            = Len(catalog) - 1

\* C6 as stated: for M call specs with any caller-chosen reference keys of
\* which exactly one sub-call fails, the batch returns M results, one failed
\* and M-1 succeeded, each under its original reference key.
C6_AnyKeysOneToOne ==
    (CallMade /\ transport = "ok" /\ ExactlyOneSubCallFails) => OneToOneResults

\* C6 amended: the same for M call specs whose reference keys are pairwise
\* distinct; the failing sub-call does not fail the batch.
C6_DistinctKeysOneToOne ==
    (CallMade /\ transport = "ok" /\ ExactlyOneSubCallFails /\ DistinctReferences)
        => OneToOneResults

C6_Witness ==
    /\ mpc = "returned"
    /\ Len(catalog) >= 2
    /\ DistinctReferences
    /\ ExactlyOneSubCallFails
    /\ OneToOneResults

\* C7: for every catalog, also one with a repeated symbol, the sweep returns
\* exactly one token for an entry iff that entry's own balanceOf call
\* succeeded with a raw balance > 0, and logs a diagnostic for exactly the
\* entries whose own call failed.
C7_TokenIffOwnCallPositive ==
    mpc = "returned" =>
        \A i \in DOMAIN catalog :
            /\ Cardinality({k \in DOMAIN tokens : tokens[k].address = catalog[i].address})
                = (IF outcome[i].success /\ parseBN(outcome[i].raw) > 0 THEN 1 ELSE 0)
            /\ i \in mcDiag <=> ~outcome[i].success

\* C8: multicallQuery makes one aggregated call, to endpoint 0; when the
\* call throws no other endpoint is contacted and nothing is retried.
C8_OneCallToPrimaryEndpoint ==
    contacted = (IF CallMade THEN <<0>> ELSE <<>>)

C8_Witness ==
    /\ mpc = "thrown"
    /\ nRpcs >= 2
    /\ contacted = <<0>>

\* C12: getWalletBalance never raises, whatever endpoints fail, the
\* aggregated multicall call included.
C12_WalletBalanceNeverRaises == mpc # "raised"

(***************************************************************************)
(* Properties of getProjectBalance and the handlers, checked under         *)
(* SpecProject.                                                            *)
(***************************************************************************)
\* C9: getProjectBalance with a project name that is not in the chain's
\* project set resolves and invokes no handler, emits one diagnostic and
\* returns an empty array.
C9_UnknownProjectGivesEmpty ==
    project \notin projects(chain) =>
        /\ handler = "none"
        /\ hpc = "idle"
        /\ dpc \in {"start", "returned"}
        /\ dpc = "returned" => projectBalance = <<>> /\ warned = 1

C9_Witness ==
    /\ chain = "eth"
    /\ project = "iron"
    /\ dpc = "returned"
    /\ projectBalance = <<>>
    /\ warned = 1

\* C10: when a position check throws, get(wallet) still returns every
\* position found before the failure, in an earlier section or for another
\* farm or market of the section that failed.
C10_NoFoundPositionLost ==
    (hpc = "done" /\ hLogged > 0) => found \subseteq Range(balance)

\* The queries whose absent result makes the handler throw.
ThrowingQueries ==
    {"poolLength", "userInfo", "lpToken", "lpToken parts", "getAllMarkets",
     "getAccountSnapshot", "underlying", "locked"}

Failed == lastRead.query \in ThrowingQueries

\* C11: get(wallet) never raises: a failure inside it is caught, logged
\* once, and the balance array built so far is returned.
C11_GetNeverRaises ==
    /\ hpc # "raised"
    /\ Failed => /\ hpc \in {"thrown", "done"}
                 /\ hpc = "done" => hLogged = 1
    /\ (hpc = "done" /\ ~Failed) => hLogged = 0

C11_Witness ==
    /\ handler = "iron"
    /\ hpc = "done"
    /\ lastRead = Read("locked", Absent)
    /\ hLogged = 1
    /\ balance # <<>>

\* C13: an absent result of balanceOf (getPoolBalanceV4, getStakedICE),
\* poolLength, userInfo, getAllMarkets, getAccountSnapshot or rewardAccrued
\* is a zero balance: the handler does not fail on it.
C13_AbsentReadIsZeroBalance ==
    hpc = "thrown" =>
        lastRead.query \notin {"poolLength", "userInfo", "getAllMarkets",
                               "getAccountSnapshot"}

\* C14: a zero balance read yields no token: a farm whose userInfo amount
\* is 0 adds nothing, and getPoolBalanceV4, getMarketRewards and
\* getStakedICE add nothing when their read is 0.
C14_ZeroReadAddsNoToken ==
    /\ \A i \in DOMAIN section.tasks :
        (hpc = "farms" /\ section.tasks[i].pc = "finished"
                       /\ section.tasks[i].amount = 0) =>
            \A t \in Range(section.balances) : ~(t.origin = "farm" /\ t.id = i - 1)
    /\ lastRead = Read("poolV4.balanceOf", 0) => balance = <<>>
    /\ lastRead = Read("rewardAccrued", 0) =>
            \A t \in Range(balance) : t.origin # "lending"
    /\ lastRead = Read("blueice.balanceOf", 0) =>
            \A t \in Range(balance) : t.origin # "blueice"

C14_Witness ==
    /\ hpc = "farms"
    /\ Len(section.tasks) = 2
    /\ section.tasks[1].pc = "finished"
    /\ section.tasks[1].amount = 0
    /\ section.tasks[2].pc = "finished"
    /\ section.balances = <<Position("staked", "farm", 1)>>

\* C27: getFarmBalances runs the farms' checks concurrently; in every
\* interleaving in which no check throws, the list holds exactly one staked
\* token for each farm with a staked amount > 0, exactly one unclaimed
\* token for each such farm with a pending reward > 0, nothing else, and a
\* farm's reward token comes after its staked token.
C27_FarmListCompleteAndOrdered ==
    hpc = "farms" =>
        LET list == section.balances
            listed == Range(list)
        IN  /\ \A k \in DOMAIN list :
                /\ \A j \in 1..(k - 1) : list[j] # list[k]
                /\ list[k].origin = "farm"
                /\ list[k].id + 1 \in DOMAIN section.tasks
                /\ list[k].status = "unclaimed" =>
                        \E j \in 1..(k - 1) : list[j] = Position("staked", "farm", list[k].id)
            /\ \A i \in DOMAIN section.tasks :
                LET task == section.tasks[i] IN
                /\ Position("staked", "farm", i - 1) \in listed <=>
                        (task.pc \in {"pendingReward", "finished"} /\ task.amount > 0)
                /\ Position("unclaimed", "farm", i - 1) \in listed <=>
                        (task.pc = "finished" /\ task.amount > 0 /\ task.rewards > 0)

C27_Witness ==
    /\ hpc = "farms"
    /\ AllFinished
    /\ section.balances = << Position("staked", "farm", 1), Position("staked", "farm", 0),
                             Position("unclaimed", "farm", 0),
                             Position("unclaimed", "farm", 1) >>

(***************************************************************************)
(* Properties of the token constructors, checked under SpecValuation.      *)
(***************************************************************************)
SimpleFns == {"addNativeToken", "addToken", "addDebtToken", "addTrackedToken"}

IsZero(x) == IsFinite(x) /\ x.num = 0

\* The decimals of the token a simple constructor is given: 18 for the
\* native token, the table's value for a tracked token, the queried value
\* otherwise.
OwnDecimals ==
    IF fn = "addNativeToken" THEN 18
    ELSE IF fn = "addTrackedToken" THEN env.tableDecimals
    ELSE IF env.kind = "native" THEN 18
    ELSE IF env.kind = "tracked" THEN env.tableDecimals
    ELSE env.decimalsRead

\* C15: for a raw balance b >= 0 and token decimals d, the token built by
\* addToken, addTrackedToken, addDebtToken and addNativeToken has
\* balance = b / 10^d >= 0; b = 1000000 with d = 6 gives balance 1.
C15_BalanceIsRawOverTenToDecimals ==
    (vpc = "returned" /\ fn \in SimpleFns /\ OwnDecimals # Absent) =>
        /\ IsFinite(newToken.balance)
        /\ newToken.balance.num >= 0
        /\ SameNumber(Multiply(newToken.balance, Pow10(Number(OwnDecimals))),
                      Number(env.rawBalance))
        /\ (env.rawBalance = 1000000 /\ OwnDecimals = 6) =>
                SameNumber(newToken.balance, Number(1))

C15_Witness ==
    /\ vpc = "returned"
    /\ fn = "addToken"
    /\ env.kind = "tracked"
    /\ env.tableDecimals = 6
    /\ env.rawBalance = 1000000
    /\ SameNumber(newToken.balance, Number(1))

\* C16: when the token is neither native nor tracked and its decimals query
\* returns an absent result, addToken and addDebtToken use decimals = 18:
\* balance = rawBalance / 10^18, a defined number.
C16_UnresolvedDecimalsDefaultTo18 ==
    (/\ vpc = "returned"
     /\ fn \in {"addToken", "addDebtToken"}
     /\ env.kind = "untracked"
     /\ env.decimalsRead = Absent) =>
        /\ IsFinite(newToken.balance)
        /\ SameNumber(Multiply(newToken.balance, Pow10(Number(18))), Number(env.rawBalance))

\* C17: for the pair built by addLPToken with total supply S > 0, reserves
\* r0 and r1 and holder share h, the constituent balances are
\* c0 = r0 * (h / S) and c1 = r1 * (h / S): c0 * S = r0 * h,
\* c1 * S = r1 * h, and c0 * r1 = c1 * r0.
C17_ConstituentsProRata ==
    (/\ vpc = "returned"
     /\ fn = "addLPToken"
     /\ IsFinite(lpTokenSupply(env)) /\ lpTokenSupply(env).num > 0
     /\ IsFinite(supply0(env)) /\ IsFinite(supply1(env))
     /\ IsFinite(newToken.balance)) =>
        LET c0 == newToken.token0.balance
            c1 == newToken.token1.balance
            S == lpTokenSupply(env)
            h == newToken.balance
        IN  /\ SameNumber(Multiply(c0, S), Multiply(supply0(env), h))
            /\ SameNumber(Multiply(c1, S), Multiply(supply1(env), h))
            /\ SameNumber(Multiply(c0, supply1(env)), Multiply(c1, supply0(env)))

C17_Witness ==
    /\ vpc = "returned"
    /\ fn = "addLPToken"
    /\ env.totalSupplyRead = 2
    /\ env.rawBalance = 3
    /\ env.reserves = <<4, 6>>
    /\ IsFinite(newToken.token0.balance) /\ newToken.token0.balance.num > 0
    /\ IsFinite(newToken.token1.balance) /\ newToken.token1.balance.num > 0

\* The supply a constructor divides by was read as 0.
ZeroSupply ==
    \/ /\ fn \in {"addLPToken", "addBalancerLikeToken"}
       /\ env.totalSupplyRead = 0
    \/ /\ fn = "addCurveToken"
       /\ env.totalSupplyRead = 0
       /\ env.chain = "eth" \/ env.rule = "pair"
    \/ /\ fn \in {"addTraderJoeToken", "addSpookyToken"}
       /\ env.supplyRead = 0

\* C18: when the total supply read from chain is 0, the price or the
\* constituent balances computed from it are 0, never NaN or Infinity.
C18_ZeroSupplyGivesZero ==
    (vpc = "returned" /\ ZeroSupply) =>
        /\ newToken.type = "lpToken" =>
            IsZero(newToken.token0.balance) /\ IsZero(newToken.token1.balance)
        /\ newToken.type = "xToken" => IsZero(newToken.underlyingToken.balance)
        /\ newToken.type = "token" => IsZero(newToken.price)

\* The address matches no decomposition rule (on eth: the registry lists
\* fewer than two coins for it), or the pool has fewer than two tokens.
Unidentified ==
    \/ /\ fn = "addCurveToken"
       /\ IF env.chain = "eth" THEN Len(curveTokens(env)) < 2
          ELSE env.chain \in {"poly", "ftm", "avax"} => env.rule = "none"
    \/ /\ fn = "addBalancerLikeToken"
       /\ env.poolInfo.present
       /\ Len(env.poolInfo.balances) < 2

\* C19: for an unidentified address or pool, addCurveToken and
\* addBalancerLikeToken return the placeholder (type 'token', symbol '???',
\* balance 0, price 0) without raising, whatever their queries return.
C19_UnidentifiedGivesPlaceholder ==
    (vpc # "start" /\ Unidentified) =>
        /\ vpc = "returned"
        /\ newToken = Placeholder

\* C20: whenever addCurveToken or addBalancerLikeToken returns the
\* placeholder, it has emitted a diagnostic in that call.
C20_PlaceholderComesWithDiagnostic ==
    (vpc = "returned" /\ newToken = Placeholder) => vWarned >= 1

\* What addXToken's callers pass it.
XFns == {"addTraderJoeToken", "addSpookyToken"}

\* The pair token's reads are resolved and its supply is not zero.
PairReadsResolved ==
    /\ env.decimalsRead # Absent
    /\ env.totalSupplyRead \notin {Absent, 0}
    /\ fn = "addLPToken" => env.token0.decimals # Absent /\ env.token1.decimals # Absent
    /\ fn \in {"addCurveToken", "addBalancerLikeToken"} => env.tokenDecimalsRead # Absent
    /\ (fn = "addCurveToken" /\ env.chain # "eth") =>
            env.minterRead /\ env.balances[1] # Absent

\* reserve_i / 10^decimals_i: the pool's reserve of constituent i, normalized
\* by the constituent's own decimals
NormalizedReserve(i) ==
    IF fn = "addLPToken"
    THEN Divide(Number(env.reserves[i]),
                Pow10(pairedDecimals(IF i = 1 THEN env.token0 ELSE env.token1)))
    ELSE IF fn = "addCurveToken"
    THEN Divide(Number(env.balances[i]), Pow10(Number(env.tokenDecimalsRead)))
    ELSE Divide(Number(env.poolInfo.balances[i]), Pow10(Number(env.tokenDecimalsRead)))

\* C23: in every strategy that returns a pair token (addLPToken, the two-coin
\* branches of addCurveToken, the two-token branch of addBalancerLikeToken),
\* each constituent balance is (reserve_i / 10^decimals_i) *
\* (holderLPBalance / totalLPSupply), the two LP amounts in the same unit:
\* constituent_i * supply = normalized reserve_i * holder balance.
C23_PairConstituentsProRata ==
    (/\ vpc = "returned"
     /\ fn \in {"addLPToken", "addCurveToken", "addBalancerLikeToken"}
     /\ newToken.type = "lpToken"
     /\ PairReadsResolved) =>
        LET h == Normalized(env.rawBalance, Number(env.decimalsRead))
            S == lpTokenSupply(env)
        IN  /\ SameNumber(Multiply(newToken.token0.balance, S),
                          Multiply(NormalizedReserve(1), h))
            /\ SameNumber(Multiply(newToken.token1.balance, S),
                          Multiply(NormalizedReserve(2), h))

\* The price of a 3+ coin pool on eth computed from the registry's arrays as
\* they are, coin i with balance i, each coin at the price getPrice gives it.
PoolPrice ==
    LET n == Len(curveTokens(env)) IN
    Multiply(Divide(priceSum(n, env.balances, parseInt(env.tokenDecimalsRead),
                             [i \in 1..n |-> getPrice(env, env.coins[i])]),
                    lpTokenSupply(env)),
             Divide(parseInt(env.virtualPriceRead), Pow10(parseInt(env.decimalsRead))))

\* C24: for a Curve LP token on eth whose pool has 3 or more coins,
\* addCurveToken returns a token of type 'token' whose price is
\* (sum over the coins of reserve_i / 10^decimals_i * price_i) divided by the
\* normalized total supply and multiplied by the virtual price.
C24_ThreeCoinPoolPrice ==
    (/\ vpc = "returned"
     /\ fn = "addCurveToken"
     /\ env.chain = "eth"
     /\ Len(curveTokens(env)) > 2) =>
        /\ newToken.type = "token"
        /\ SameNumber(newToken.price, PoolPrice)

\* C25: whenever addCurveToken on eth prices a coin that is one of the
\* synthetic assets, the price used is the redirect address's price, in the
\* 3+ coin branch and in the two-coin branch.
C25_SyntheticsPricedAtRedirect ==
    (/\ vpc = "returned"
     /\ fn = "addCurveToken"
     /\ env.chain = "eth") =>
        LET coins == curveTokens(env)
            n == Len(coins)
        IN  /\ n > 2 =>
                SameNumber(newToken.price,
                    Multiply(Divide(priceSum(n, curveReserves(env),
                                             parseInt(env.tokenDecimalsRead),
                                             [i \in 1..n |->
                                                IF coins[i] = "synth"
                                                THEN Number(env.redirectPrice)
                                                ELSE Number(env.price)]),
                                    lpTokenSupply(env)),
                             Divide(parseInt(env.virtualPriceRead),
                                    Pow10(parseInt(env.decimalsRead)))))
            /\ n = 2 =>
                /\ coins[1] = "synth" =>
                        SameNumber(newToken.token0.price, Number(env.redirectPrice))
                /\ coins[2] = "synth" =>
                        SameNumber(newToken.token1.price, Number(env.redirectPrice))

\* C28: the underlying constituent of the token built by addXToken has the
\* symbol of underlyingAddress, and its balance is underlyingRawBalance
\* normalized by the decimals of underlyingAddress, whether or not the
\* xToken's own address is tracked.
C28_UnderlyingDescribesUnderlyingAddress ==
    (vpc = "returned" /\ fn \in XFns) =>
        /\ newToken.underlyingToken.symbol = "symbol of underlyingAddress"
        /\ (env.underlying.tracked \/ env.underlying.decimalsRead # Absent) =>
                SameNumber(Multiply(newToken.underlyingToken.balance,
                                    Pow10(Number(env.underlying.decimals))),
                           stakedShare(env))

\* C29: in addCurveToken on eth, the i-th reserve used is the registry's
\* balance of the i-th coin used, also when a listed coin has a zero balance.
C29_ReservesAlignedWithCoins ==
    (/\ vpc = "returned"
     /\ fn = "addCurveToken"
     /\ env.chain = "eth"
     /\ Len(curveTokens(env)) >= 2) =>
        \A i \in 1..Len(curveTokens(env)) :
            /\ i <= Len(curveReserves(env))
            /\ curveReserves(env)[i] = env.balances[i]

\* C30: every token returned by addToken, addLPToken, addXToken,
\* addCurveToken and addBalancerLikeToken carries the status passed by the
\* caller, on every return path including the placeholder.
C30_StatusPassedThrough ==
    (/\ vpc = "returned"
     /\ fn \in {"addToken", "addLPToken", "addCurveToken", "addBalancerLikeToken"} \cup XFns) =>
        newToken.status = env.status

\* C21: calling addToken, addLPToken, addXToken, addCurveToken or
\* addBalancerLikeToken twice with identical inputs, chain state and price
\* source ends the same way and yields identical tokens, however the
\* endpoints behave during the two calls.
C21_SecondCallYieldsSameToken ==
    (/\ first.pc # "none"
     /\ vpc \in {"returned", "raised"}
     /\ fn \in {"addToken", "addLPToken", "addCurveToken", "addBalancerLikeToken"} \cup XFns) =>
        /\ vpc = first.pc
        /\ newToken = first.token

(***************************************************************************)
(* Properties of getWalletNativeTokenBalance, checked under                *)
(* FairSpecNative.                                                         *)
(***************************************************************************)
\* C26: getWalletNativeTokenBalance terminates for every endpoint
\* behaviour: a read of 0 ends it with no token, and when every attempt
\* fails it gives up after N*3 attempts with no token.
C26_NativeBalanceTerminates ==
    <>(/\ npc = "done"
       /\ nBalance = 0 => nReturned = <<>>
       /\ nBalance = Absent => nFailed = nRpcs * 3 /\ nReturned = <<>>)

====
